---- MODULE Spec2Model ----
(***************************************************************************)
(* Model of app/main.py: the WorkoutPlan generator of the ANI_FIT backend. *)
(* One WorkoutPlan object is built by __init__ and generate is called on   *)
(* it, any number of times; the for loops of generate advance one day per  *)
(* step.                                                                   *)
(***************************************************************************)
EXTENDS Integers, Sequences, FiniteSets, TLC

(* ---------------- bounds of the model ---------------- *)
\* days_per_week is drawn from (1 - DaysSlack)..(6 + DaysSlack)
DaysSlack == 1
\* generate is called with weeks in 0..MaxWeeks
MaxWeeks == 2
\* number of states of the random source
RngPeriod == 3

(* ---------------- static tables ---------------- *)
EXERCISES ==
  << [id |-> "pushup",    group |-> "chest",     equipment |-> "bodyweight"],
     [id |-> "ohp-db",    group |-> "shoulders", equipment |-> "dumbbells"],
     [id |-> "bench",     group |-> "chest",     equipment |-> "gym"],
     [id |-> "row",       group |-> "back",      equipment |-> "dumbbells"],
     [id |-> "pullup",    group |-> "back",      equipment |-> "bodyweight"],
     [id |-> "squat-bw",  group |-> "legs",      equipment |-> "bodyweight"],
     [id |-> "goblet",    group |-> "legs",      equipment |-> "dumbbells"],
     [id |-> "backsquat", group |-> "legs",      equipment |-> "gym"],
     [id |-> "plank",     group |-> "core",      equipment |-> "bodyweight"],
     [id |-> "hkr",       group |-> "core",      equipment |-> "gym"] >>

CHAR_ARCH ==
  [ goku    |-> [template |-> <<"push","pull","legs","full","full">>, sets |-> 4, reps |-> 5],
    luffy   |-> [template |-> <<"full","full","legs","full","full">>, sets |-> 3, reps |-> 12],
    asta    |-> [template |-> <<"push","pull","legs","push","pull">>, sets |-> 4, reps |-> 6],
    saitama |-> [template |-> <<"full","full","full">>,               sets |-> 3, reps |-> 10] ]

\* the sentinel of last_trained ("never trained")
NeverTrained == -999

\* the keys of self.last_trained
TrackedGroups == {"chest", "back", "legs", "shoulders", "arms", "core"}

\* faulty variant: the day ends one item early
ItemCap_Early == 5 - 1

\* len(items) >= ItemCap ends the day
ItemCap == 5

\* a group is skipped while current_day_index - last_trained[g] < RecoveryGap
RecoveryGap == 2

(* ---------------- inputs ---------------- *)
\* the four archetypes and one id that CHAR_ARCH does not know
CharacterIds == {"goku", "luffy", "asta", "saitama", "naruto"}
DaysInputs == (1 - DaysSlack)..(6 + DaysSlack)
\* the Level literal and one value outside it
Levels == {"beginner", "intermediate", "elite"}
\* the Goal literal and one value outside it
Goals == {"strength", "hypertrophy", "athletic", "mobility"}
\* the Equipment literal and one value outside it
Equipments == {"bodyweight", "dumbbells", "gym", "bands"}
WeeksInputs == 0..MaxWeeks

VARIABLES
  days_per_week,      \* the days_per_week argument of __init__
  character_id,       \* self.character_id
  days,               \* self.days
  level,              \* self.level
  goal,               \* self.goal
  equipment,          \* self.equipment
  last_trained,       \* self.last_trained
  template,           \* self.template
  rng,                \* state of the module-level random source
  pc,                 \* "constructed", "gen" (inside generate), "returned", "raised"
  weeks,              \* the weeks argument of the running/last generate call
  schedule,           \* generate's schedule list (the return value once pc = "returned")
  sets,               \* generate's local sets
  reps,               \* generate's local reps
  current_day_index,  \* generate's local current_day_index
  w,                  \* outer loop variable
  d                   \* inner loop variable

objvars == <<days_per_week, character_id, days, level, goal, equipment, template>>
vars == <<days_per_week, character_id, days, level, goal, equipment, last_trained,
          template, rng, pc, weeks, schedule, sets, reps,
          current_day_index, w, d>>

(* ---------------- helpers ---------------- *)
Max(a, b) == IF a >= b THEN a ELSE b
Min(a, b) == IF a <= b THEN a ELSE b

\* base[:n]
Take(s, n) == SubSeq(s, 1, Min(n, Len(s)))

\* [x] * n
Repeat(x, n) == [i \in 1..Max(n, 0) |-> x]

\* CHAR_ARCH.get(character_id) is not None
KnownCharacter(c) == c \in DOMAIN CHAR_ARCH

\* max(1, min(6, days_per_week))
ClampDays(n) == Max(1, Min(6, n))

\* faulty variant: a short archetype template is returned as it is, without padding
_make_template_NoPad(c, n) ==
  IF KnownCharacter(c)
  THEN Take(CHAR_ARCH[c].template, n)
  ELSE IF n <= 3 THEN <<"full", "full", "full">>
  ELSE IF n = 4 THEN <<"push", "legs", "pull", "full">>
  ELSE IF n = 5 THEN <<"push", "pull", "legs", "full", "full">>
  ELSE <<"push", "pull", "legs", "push", "pull", "legs">>

\* faulty variant: the fallback honours a day count below 3
_make_template_FallbackN(c, n) ==
  IF KnownCharacter(c)
  THEN LET base == CHAR_ARCH[c].template IN
       IF Len(base) >= n THEN Take(base, n)
       ELSE base \o Repeat(base[Len(base)], n - Len(base))
  ELSE IF n <= 3 THEN Repeat("full", n)
  ELSE IF n = 4 THEN <<"push", "legs", "pull", "full">>
  ELSE IF n = 5 THEN <<"push", "pull", "legs", "full", "full">>
  ELSE <<"push", "pull", "legs", "push", "pull", "legs">>

_make_template(c, n) ==
  IF KnownCharacter(c)
  THEN LET base == CHAR_ARCH[c].template IN
       IF Len(base) >= n THEN Take(base, n)
       ELSE base \o Repeat(base[Len(base)], n - Len(base))
  ELSE IF n <= 3 THEN <<"full", "full", "full">>
  ELSE IF n = 4 THEN <<"push", "legs", "pull", "full">>
  ELSE IF n = 5 THEN <<"push", "pull", "legs", "full", "full">>
  ELSE <<"push", "pull", "legs", "push", "pull", "legs">>

\* faulty variant: the strength clamp takes the larger value
_sets_reps_StrengthMax(c, lv, gl) ==
  LET known == KnownCharacter(c)
      base_sets == IF known THEN CHAR_ARCH[c].sets
                   ELSE IF lv = "beginner" THEN 3 ELSE 4
      r == IF gl = "strength"
           THEN (IF known THEN Max(CHAR_ARCH[c].reps, 6) ELSE 4)
           ELSE IF gl = "hypertrophy"
           THEN (IF known THEN Max(CHAR_ARCH[c].reps, 8) ELSE 8)
           ELSE (IF known THEN Max(CHAR_ARCH[c].reps, 10) ELSE 10)
  IN  [sets |-> base_sets, reps |-> r]

_sets_reps(c, lv, gl) ==
  LET known == KnownCharacter(c)
      base_sets == IF known THEN CHAR_ARCH[c].sets
                   ELSE IF lv = "beginner" THEN 3 ELSE 4
      r == IF gl = "strength"
           THEN (IF known THEN Min(CHAR_ARCH[c].reps, 6) ELSE 4)
           ELSE IF gl = "hypertrophy"
           THEN (IF known THEN Max(CHAR_ARCH[c].reps, 8) ELSE 8)
           ELSE (IF known THEN Max(CHAR_ARCH[c].reps, 10) ELSE 10)
  IN  [sets |-> base_sets, reps |-> r]

\* faulty variant: the full-body day names a group that last_trained does not track
_focus_groups_Untracked(focus) ==
  IF focus = "push" THEN <<"chest", "shoulders", "core">>
  ELSE IF focus = "pull" THEN <<"back", "core">>
  ELSE IF focus = "legs" THEN <<"legs", "core">>
  ELSE <<"chest", "back", "legs", "shoulders", "glutes">>

_focus_groups(focus) ==
  IF focus = "push" THEN <<"chest", "shoulders", "core">>
  ELSE IF focus = "pull" THEN <<"back", "core">>
  ELSE IF focus = "legs" THEN <<"legs", "core">>
  ELSE <<"chest", "back", "legs", "shoulders", "core">>

\* faulty variant: the equipment test is dropped
EquipmentOk_Any(ex, eq) == TRUE

\* the equipment test of _filtered for one catalog entry
EquipmentOk(ex, eq) ==
  IF eq = "gym" THEN TRUE ELSE ex.equipment \in {eq, "bodyweight"}

_filtered(group, eq) ==
  SelectSeq(EXERCISES, LAMBDA ex : ex.group = group /\ EquipmentOk(ex, eq))

\* faulty variant: a group moves ahead of the groups with an equal key
RECURSIVE InsertSorted_TiesReversed(_, _, _)
InsertSorted_TiesReversed(sorted, g, key) ==
  IF sorted = <<>> THEN <<g>>
  ELSE IF key[g] <= key[sorted[Len(sorted)]]
       THEN Append(InsertSorted_TiesReversed(SubSeq(sorted, 1, Len(sorted) - 1), g, key),
                   sorted[Len(sorted)])
       ELSE Append(sorted, g)

\* list.sort(key = ...) : stable, ascending by key
RECURSIVE InsertSorted(_, _, _)
InsertSorted(sorted, g, key) ==
  IF sorted = <<>> THEN <<g>>
  ELSE IF key[g] < key[sorted[Len(sorted)]]
       THEN Append(InsertSorted(SubSeq(sorted, 1, Len(sorted) - 1), g, key), sorted[Len(sorted)])
       ELSE Append(sorted, g)

RECURSIVE SortGroups(_, _)
SortGroups(groups, key) ==
  IF groups = <<>> THEN <<>>
  ELSE InsertSorted(SortGroups(SubSeq(groups, 1, Len(groups) - 1), key),
                    groups[Len(groups)], key)

\* random.choice(pool) with the random source in state r.  Python's random
\* module is a seeded generator: its hidden state decides every draw and
\* advances with each draw.  The state is a counter modulo RngPeriod whose
\* initial value is arbitrary; a draw from a pool of n entries takes entry
\* r mod n, so every entry of every pool (n <= 3) can be drawn.
RandomChoice(pool, r) == pool[(r % Len(pool)) + 1]
NextRng(r) == (r + 1) % RngPeriod

\* faulty variant: only a group trained on the same day is skipped
InRecovery_NoGap(cur, last) == cur - last < 1

\* faulty variant: a group trained exactly two days ago is still skipped
InRecovery_OffByOne(cur, last) == cur - last <= RecoveryGap

\* the test "current_day_index - self.last_trained[g] < 2" (True = skip)
InRecovery(cur, last) == cur - last < RecoveryGap

\* faulty variant: the item is appended twice
AppendItem_Twice(items, choice, s, r) ==
  Append(Append(items, [exercise_id |-> choice.id, sets |-> s, reps |-> r]),
         [exercise_id |-> choice.id, sets |-> s, reps |-> r])

\* faulty variant: sets and reps change places in the item
AppendItem_Swapped(items, choice, s, r) ==
  Append(items, [exercise_id |-> choice.id, sets |-> r, reps |-> s])

\* items.append(ExerciseItem(exercise_id=choice["id"], sets=sets, reps=reps))
AppendItem(items, choice, s, r) ==
  Append(items, [exercise_id |-> choice.id, sets |-> s, reps |-> r])

\* faulty variant: day_index is written 1-based
MakeDayPlan_OneBased(wk, di, focus, items) ==
  [week |-> wk, day_index |-> di + 1, focus |-> focus, items |-> items]

\* DayPlan(week=w, day_index=d, focus=focus, items=items)
MakeDayPlan(wk, di, focus, items) ==
  [week |-> wk, day_index |-> di, focus |-> focus, items |-> items]

\* faulty variant: a recovered group is marked as trained before its pool is
\* looked at, so also when the pool is empty
RECURSIVE GroupLoop_MarkEmptyPool(_, _, _, _, _, _, _, _, _)
GroupLoop_MarkEmptyPool(groups, k, items, lt, r, cur, eq, s, rp) ==
  IF k > Len(groups) THEN [items |-> items, last_trained |-> lt, rng |-> r]
  ELSE LET g == groups[k] IN
       IF InRecovery(cur, lt[g])
       THEN GroupLoop_MarkEmptyPool(groups, k + 1, items, lt, r, cur, eq, s, rp)
       ELSE LET pool == _filtered(g, eq)
                lt2  == [lt EXCEPT ![g] = cur]
            IN
            IF pool = <<>>
            THEN GroupLoop_MarkEmptyPool(groups, k + 1, items, lt2, r, cur, eq, s, rp)
            ELSE LET choice == RandomChoice(pool, r)
                     items2 == AppendItem(items, choice, s, rp)
                 IN  IF Len(items2) >= ItemCap
                     THEN [items |-> items2, last_trained |-> lt2, rng |-> NextRng(r)]
                     ELSE GroupLoop_MarkEmptyPool(groups, k + 1, items2, lt2, NextRng(r),
                                                  cur, eq, s, rp)

\* the body of "for g in groups": from position k on, with the day's items,
\* last_trained and the random source as built so far
RECURSIVE GroupLoop(_, _, _, _, _, _, _, _, _)
GroupLoop(groups, k, items, lt, r, cur, eq, s, rp) ==
  IF k > Len(groups) THEN [items |-> items, last_trained |-> lt, rng |-> r]
  ELSE LET g == groups[k] IN
       IF InRecovery(cur, lt[g])
       THEN GroupLoop(groups, k + 1, items, lt, r, cur, eq, s, rp)
       ELSE LET pool == _filtered(g, eq) IN
            IF pool = <<>>
            THEN GroupLoop(groups, k + 1, items, lt, r, cur, eq, s, rp)
            ELSE LET choice == RandomChoice(pool, r)
                     items2 == AppendItem(items, choice, s, rp)
                     lt2    == [lt EXCEPT ![g] = cur]
                 IN  IF Len(items2) >= ItemCap
                     THEN [items |-> items2, last_trained |-> lt2, rng |-> NextRng(r)]
                     ELSE GroupLoop(groups, k + 1, items2, lt2, NextRng(r), cur, eq, s, rp)

\* self.last_trained[g] raises KeyError for a group that is not a key
KeyErrorIn(groups, lt) == \E k \in 1..Len(groups) : groups[k] \notin DOMAIN lt

(* ---------------- the state machine ---------------- *)
\* the state after WorkoutPlan.__init__
Init ==
  /\ days_per_week \in DaysInputs
  /\ character_id \in CharacterIds
  /\ level \in Levels
  /\ goal \in Goals
  /\ equipment \in Equipments
  /\ days = ClampDays(days_per_week)
  /\ last_trained = [g \in TrackedGroups |-> NeverTrained]
  /\ template = _make_template(character_id, days)
  /\ rng \in 0..(RngPeriod - 1)
  /\ pc = "constructed"
  /\ weeks = 0
  /\ schedule = <<>>
  /\ sets = 0
  /\ reps = 0
  /\ current_day_index = 0
  /\ w = 0
  /\ d = 0

\* entry of generate(weeks): lines 120-122 and the first range() value
Generate(wk) ==
  /\ pc \in {"constructed", "returned"}
  /\ weeks' = wk
  /\ schedule' = <<>>
  /\ sets' = _sets_reps(character_id, level, goal).sets
  /\ reps' = _sets_reps(character_id, level, goal).reps
  /\ current_day_index' = 0
  /\ w' = 1
  /\ d' = 0
  /\ pc' = "gen"
  /\ UNCHANGED <<objvars, last_trained, rng>>

\* one iteration of the inner for loop: lines 126-144
BuildDay ==
  /\ pc = "gen"
  /\ w <= weeks
  /\ LET focus  == template[d + 1]
         groups == _focus_groups(focus)
     IN  IF KeyErrorIn(groups, last_trained)
         THEN /\ pc' = "raised"
              /\ UNCHANGED <<last_trained, rng, schedule, current_day_index, w, d>>
         ELSE LET sorted == SortGroups(groups, last_trained)
                  res == GroupLoop(sorted, 1, <<>>, last_trained, rng,
                                   current_day_index, equipment, sets, reps)
              IN  /\ schedule' = Append(schedule, MakeDayPlan(w, d, focus, res.items))
                  /\ last_trained' = res.last_trained
                  /\ rng' = res.rng
                  /\ current_day_index' = current_day_index + 1
                  /\ IF d + 1 < Len(template)
                     THEN /\ d' = d + 1
                          /\ w' = w
                     ELSE /\ d' = 0
                          /\ w' = w + 1
                  /\ pc' = "gen"
  /\ UNCHANGED <<objvars, weeks, sets, reps>>

\* the loops are exhausted: return schedule (line 146)
Return ==
  /\ pc = "gen"
  /\ w > weeks
  /\ pc' = "returned"
  /\ UNCHANGED <<objvars, last_trained, rng, weeks, schedule, sets, reps,
                 current_day_index, w, d>>

Next ==
  \/ \E wk \in WeeksInputs : Generate(wk)
  \/ BuildDay
  \/ Return

Spec == Init /\ [][Next]_vars

TypeOK ==
  /\ pc \in {"constructed", "gen", "returned", "raised"}
  /\ days \in 1..6
  /\ Len(template) \in 1..6

(* ---------------- vocabulary of the properties ---------------- *)
\* the catalog entry with a given id (ids are unique in EXERCISES)
ExerciseById(id) == CHOOSE ex \in {EXERCISES[i] : i \in DOMAIN EXERCISES} : ex.id = id

\* the muscle group an item trains: the group of its exercise in the catalog
ExerciseGroup ==
  [id \in {EXERCISES[i].id : i \in DOMAIN EXERCISES} |-> ExerciseById(id).group]
ItemGroup(item) == ExerciseGroup[item.exercise_id]

\* group g gets an item on the DayPlan at position p of the schedule
TrainedOn(p, g) ==
  \E i \in 1..Len(schedule[p].items) : ItemGroup(schedule[p].items[i]) = g

\* the candidate groups of a focus tag, as a set
CandidateGroups(focus) ==
  CASE focus = "push" -> {"chest", "shoulders", "core"}
    [] focus = "pull" -> {"back", "core"}
    [] focus = "legs" -> {"legs", "core"}
    [] OTHER          -> {"chest", "back", "legs", "shoulders", "core"}

\* the catalog has an exercise of group g that equipment eq admits
HasEligible(g, eq) ==
  \E i \in DOMAIN EXERCISES :
     /\ EXERCISES[i].group = g
     /\ \/ eq = "gym"
        \/ EXERCISES[i].equipment = eq
        \/ EXERCISES[i].equipment = "bodyweight"

(* ---------------- C1 ---------------- *)
\* C1: a group that gets an item on global day i (position i of the
\* schedule, counted across weeks) gets no item on global day i+1, also
\* when day i is the last day of a week and day i+1 the first of the next.
C1_Recovery ==
  \A p \in 1..(Len(schedule) - 1) : \A g \in TrackedGroups :
     TrainedOn(p, g) => ~TrainedOn(p + 1, g)

\* a returned plan in which a group trained on the last day of week 1 is a
\* candidate of day 0 of week 2 and is left out there
C1_Witness ==
  /\ pc = "returned"
  /\ \E p \in 1..(Len(schedule) - 1) : \E g \in TrackedGroups :
        /\ schedule[p].week = 1
        /\ schedule[p + 1].week = 2
        /\ schedule[p + 1].day_index = 0
        /\ TrainedOn(p, g)
        /\ g \in CandidateGroups(schedule[p + 1].focus)
        /\ HasEligible(g, equipment)
        /\ ~TrainedOn(p + 1, g)

(* ---------------- C2 ---------------- *)
\* C2 as stated: every DayPlan one of whose candidate groups has a non-empty
\* filtered pool has a non-empty items list.
C2_Original ==
  \A p \in 1..Len(schedule) :
     (\E g \in CandidateGroups(schedule[p].focus) : HasEligible(g, equipment))
        => schedule[p].items # <<>>

\* C2 (amended): when a day is built and at least one candidate group of its
\* focus has a non-empty filtered pool and is recovered at the start of the
\* day (current_day_index - last_trained[g] >= 2), the day's items list is
\* non-empty.
C2_EmptyOnlyWhenNothingAvailable ==
  [][ (pc = "gen" /\ Len(schedule') = Len(schedule) + 1)
        => ( (\E g \in CandidateGroups(template[d + 1]) :
                 /\ HasEligible(g, equipment)
                 /\ current_day_index - last_trained[g] >= 2)
             => schedule'[Len(schedule')].items # <<>> ) ]_vars

\* a returned plan with a non-empty day, then a day left empty by recovery
\* alone, then a non-empty day again
C2_Witness ==
  /\ pc = "returned"
  /\ \E p \in 1..(Len(schedule) - 2) :
        /\ schedule[p].items # <<>>
        /\ schedule[p + 1].items = <<>>
        /\ \E g \in CandidateGroups(schedule[p + 1].focus) : HasEligible(g, equipment)
        /\ schedule[p + 2].items # <<>>

(* ---------------- C3 ---------------- *)
\* the first state of a generate call: the locals are set, no day is built
CallStart == pc = "gen" /\ schedule = <<>> /\ w = 1 /\ d = 0

\* C3: at the start of every generate call the day counter is 0 and every
\* tracked group's last_trained is the sentinel, whatever calls came before.
C3_SelfContained ==
  CallStart =>
     /\ current_day_index = 0
     /\ \A g \in TrackedGroups : last_trained[g] = NeverTrained

(* ---------------- C4 ---------------- *)
\* C4: the DayPlan at position p (0-based) has week = p div len(template) + 1,
\* day_index = p mod len(template) and focus = template[day_index]; a
\* returned schedule has exactly weeks * len(template) DayPlans; and generate
\* terminates: while it runs, the loop position (w, d) is a valid one and
\* counts the DayPlans built so far, every step either returns or appends
\* exactly one DayPlan, and no more than weeks * len(template) are built.
C4_Shape ==
  /\ [](\A q \in 1..Len(schedule) :
          /\ schedule[q].week = ((q - 1) \div Len(template)) + 1
          /\ schedule[q].day_index = (q - 1) % Len(template)
          /\ schedule[q].focus = template[schedule[q].day_index + 1])
  /\ [](pc = "returned" => Len(schedule) = weeks * Len(template))
  /\ [](pc = "gen" =>
          /\ w \in 1..(weeks + 1)
          /\ d \in 0..(Len(template) - 1)
          /\ Len(schedule) = (w - 1) * Len(template) + d
          /\ Len(schedule) <= weeks * Len(template))
  /\ [][pc = "gen" =>
          ((pc' = "returned" /\ schedule' = schedule)
             \/ (pc' = "gen" /\ Len(schedule') = Len(schedule) + 1))]_vars

\* a returned two-week plan and a returned zero-week plan
C4_Witness ==
  /\ pc = "returned"
  /\ weeks = 2
  /\ Len(schedule) = 2 * Len(template)
  /\ Len(template) >= 2
  /\ schedule[Len(schedule)].week = 2
  /\ schedule[Len(schedule)].day_index = Len(template) - 1

(* ---------------- C5 ---------------- *)
\* C5: for a known archetype the template has exactly N = clamp(days_per_week,
\* 1, 6) entries: entry i is the archetype's i-th focus while the archetype's
\* day_template has one, and its last focus afterwards.
C5_KnownTemplate ==
  character_id \in {"goku", "luffy", "asta", "saitama"} =>
     LET N == IF days_per_week < 1 THEN 1
              ELSE IF days_per_week > 6 THEN 6 ELSE days_per_week
         base == CHAR_ARCH[character_id].template
     IN  /\ days = N
         /\ Len(template) = N
         /\ \A i \in 1..N :
               template[i] = IF i <= Len(base) THEN base[i] ELSE base[Len(base)]

\* saitama (3-day archetype) asked for 7 days: six entries, the last three padded
C5_Witness ==
  /\ character_id = "saitama"
  /\ days_per_week = 7
  /\ template = <<"full", "full", "full", "full", "full", "full">>
  /\ pc = "returned"

(* ---------------- C6 ---------------- *)
\* C6: for an unknown character_id the template is the fallback table entry
\* of the clamped day count: three "full" days for 1, 2 and 3.
C6_FallbackTemplate ==
  ~(character_id \in {"goku", "luffy", "asta", "saitama"}) =>
     LET N == IF days_per_week < 1 THEN 1
              ELSE IF days_per_week > 6 THEN 6 ELSE days_per_week
     IN  /\ (N \in {1, 2, 3} => template = <<"full", "full", "full">>)
         /\ (N = 4 => template = <<"push", "legs", "pull", "full">>)
         /\ (N = 5 => template = <<"push", "pull", "legs", "full", "full">>)
         /\ (N = 6 => template = <<"push", "pull", "legs", "push", "pull", "legs">>)
         /\ (pc = "returned" /\ N \in {1, 2} /\ weeks >= 1 =>
               Cardinality({q \in 1..Len(schedule) : schedule[q].week = 1}) = 3)

\* an unknown character asked for 2 days per week got 3 DayPlans in week 1
C6_Witness ==
  /\ character_id = "naruto"
  /\ days_per_week = 2
  /\ pc = "returned"
  /\ weeks = 1
  /\ Len(schedule) = 3

(* ---------------- C7 ---------------- *)
\* C7: the (sets, reps) pair a generate call resolves is the reference rule
\* of (character_id, level, goal): sets is the archetype's default (4, 3, 4,
\* 3 for goku, luffy, asta, saitama), else 3 for beginner and 4 otherwise;
\* reps is at most 6 under strength, at least 8 under hypertrophy and at
\* least 10 otherwise, clamping the archetype's reps (5, 12, 6, 10) or taking
\* 4 / 8 / 10 for an unknown character.
C7_SetsReps ==
  pc \in {"gen", "returned"} =>
     LET known == character_id \in {"goku", "luffy", "asta", "saitama"}
         aSets == [goku |-> 4, luffy |-> 3, asta |-> 4, saitama |-> 3]
         aReps == [goku |-> 5, luffy |-> 12, asta |-> 6, saitama |-> 10]
         c == IF known THEN aReps[character_id] ELSE 0
     IN  /\ (known => sets = aSets[character_id])
         /\ (~known /\ level = "beginner" => sets = 3)
         /\ (~known /\ level # "beginner" => sets = 4)
         /\ (goal = "strength" =>
               /\ reps <= 6
               /\ reps = IF ~known THEN 4 ELSE IF c < 6 THEN c ELSE 6)
         /\ (goal = "hypertrophy" =>
               /\ reps >= 8
               /\ reps = IF ~known THEN 8 ELSE IF c > 8 THEN c ELSE 8)
         /\ (goal \notin {"strength", "hypertrophy"} =>
               /\ reps >= 10
               /\ reps = IF ~known THEN 10 ELSE IF c > 10 THEN c ELSE 10)
         /\ (character_id = "goku" /\ goal = "strength" => reps = 5)
         /\ (character_id = "luffy" /\ goal = "strength" => reps = 6)
         /\ (character_id = "saitama" /\ goal = "hypertrophy" => sets = 3 /\ reps = 10)
         /\ \A q \in 1..Len(schedule) : \A i \in 1..Len(schedule[q].items) :
               /\ schedule[q].items[i].sets = sets
               /\ schedule[q].items[i].reps = reps

\* luffy with goal strength: a returned plan whose items carry 3 sets of 6
C7_Witness ==
  /\ pc = "returned"
  /\ character_id = "luffy"
  /\ goal = "strength"
  /\ sets = 3
  /\ reps = 6
  /\ \E q \in 1..Len(schedule) :
        /\ schedule[q].items # <<>>
        /\ schedule[q].items[1].reps = 6

(* ---------------- C8 ---------------- *)
\* C8: unless the request's equipment is "gym", every item of the schedule
\* names a catalog exercise whose required equipment is the request's
\* equipment or "bodyweight".
C8_EquipmentFilter ==
  \A q \in 1..Len(schedule) : \A i \in 1..Len(schedule[q].items) :
     LET id == schedule[q].items[i].exercise_id IN
     /\ \E k \in DOMAIN EXERCISES : EXERCISES[k].id = id
     /\ (equipment # "gym" =>
           \A k \in DOMAIN EXERCISES :
              EXERCISES[k].id = id =>
                 \/ EXERCISES[k].equipment = equipment
                 \/ EXERCISES[k].equipment = "bodyweight")

\* a returned dumbbells plan that holds a dumbbell exercise and a bodyweight
\* one although the same groups have gym exercises in the catalog
C8_Witness ==
  /\ pc = "returned"
  /\ equipment = "dumbbells"
  /\ \E q \in 1..Len(schedule) :
        /\ \E i \in 1..Len(schedule[q].items) :
              schedule[q].items[i].exercise_id \in {"goblet", "row", "ohp-db"}
        /\ \E i \in 1..Len(schedule[q].items) :
              schedule[q].items[i].exercise_id \in {"pushup", "plank"}

(* ---------------- C9 ---------------- *)
\* C9: every DayPlan of the schedule has at most 5 items.
C9_ItemCap ==
  \A q \in 1..Len(schedule) : Len(schedule[q].items) \in 0..5

\* a day that reached the cap: five items
C9_Witness ==
  \E q \in 1..Len(schedule) : Len(schedule[q].items) = 5

(* ---------------- C10 ---------------- *)
\* C10: no input makes construction or generate raise; a goal outside the
\* enum gets the athletic reps, a level outside the enum gets 4 sets for an
\* unknown character, and an equipment value outside the enum admits only
\* exercises of that equipment or bodyweight ones.
C10_NoRejection ==
  /\ pc # "raised"
  /\ (pc \in {"gen", "returned"} =>
        /\ (goal \notin {"strength", "hypertrophy", "athletic"} =>
              reps = IF character_id = "luffy" THEN 12 ELSE 10)
        /\ (level \notin {"beginner", "intermediate"}
              /\ character_id \notin {"goku", "luffy", "asta", "saitama"} => sets = 4)
        /\ (equipment \notin {"bodyweight", "dumbbells", "gym"} =>
              \A q \in 1..Len(schedule) : \A i \in 1..Len(schedule[q].items) :
                 schedule[q].items[i].exercise_id \in
                    {"pushup", "pullup", "squat-bw", "plank"}))

\* an out-of-range day count and unknown character, level, goal and
\* equipment: a plan is returned and its first day has items
C10_Witness ==
  /\ pc = "returned"
  /\ days_per_week \notin 1..6
  /\ character_id = "naruto"
  /\ level = "elite"
  /\ goal = "mobility"
  /\ equipment = "bands"
  /\ weeks >= 1
  /\ schedule[1].items # <<>>
  /\ sets = 4
  /\ reps = 10

(* ---------------- C11 ---------------- *)
\* C11: all items of one schedule carry the same sets and the same reps: the
\* pair generate resolved before the first day, which no later step of the
\* call changes.
C11_OnePairPerPlan ==
  /\ [](LET pairs == UNION {{<<schedule[q].items[i].sets, schedule[q].items[i].reps>> :
                                i \in 1..Len(schedule[q].items)} : q \in 1..Len(schedule)}
        IN  /\ Cardinality(pairs) <= 1
            /\ pairs \subseteq {<<sets, reps>>})
  /\ [][pc = "gen" => (sets' = sets /\ reps' = reps)]_vars
  /\ [][(pc = "gen" /\ schedule' # schedule) =>
           SubSeq(schedule', 1, Len(schedule)) = schedule]_vars

\* a returned two-week goku/strength plan: items on the first day of week 1
\* and on a day of week 2, all with 4 sets of 5
C11_Witness ==
  /\ pc = "returned"
  /\ character_id = "goku"
  /\ goal = "strength"
  /\ weeks = 2
  /\ schedule[1].items # <<>>
  /\ \E q \in 1..Len(schedule) :
        /\ schedule[q].week = 2
        /\ Len(schedule[q].items) >= 2
        /\ schedule[q].items[2].sets = 4
        /\ schedule[q].items[2].reps = 5

(* ---------------- C12 ---------------- *)
\* the place of a group in the list the focus mapping gives for a focus tag
ListedPosition(focus, g) ==
  CASE focus = "push" -> [chest |-> 1, shoulders |-> 2, core |-> 3][g]
    [] focus = "pull" -> [back |-> 1, core |-> 2][g]
    [] focus = "legs" -> [legs |-> 1, core |-> 2][g]
    [] OTHER          -> [chest |-> 1, back |-> 2, legs |-> 3, shoulders |-> 4, core |-> 5][g]

\* C12: the items of a day are appended in ascending order of the
\* last_trained value their groups had when the day started; of two groups
\* with the same value the one the focus mapping lists first comes first.
C12_StalestFirst ==
  [][ (pc = "gen" /\ Len(schedule') = Len(schedule) + 1) =>
        LET day == schedule'[Len(schedule')] IN
        \A i \in 1..Len(day.items) : \A j \in 1..Len(day.items) :
           i < j =>
              LET gi == ItemGroup(day.items[i])
                  gj == ItemGroup(day.items[j])
              IN  \/ last_trained[gi] < last_trained[gj]
                  \/ /\ last_trained[gi] = last_trained[gj]
                     /\ ListedPosition(day.focus, gi) < ListedPosition(day.focus, gj) ]_vars

\* a returned plan with a full-body day on which chest and shoulders (equally
\* stale, chest listed first) got their items in that order and both before
\* back (listed second, but trained more recently)
C12_Witness ==
  /\ pc = "returned"
  /\ \E q \in 1..Len(schedule) :
        /\ schedule[q].focus = "full"
        /\ Len(schedule[q].items) >= 3
        /\ ItemGroup(schedule[q].items[1]) = "chest"
        /\ ItemGroup(schedule[q].items[2]) = "shoulders"
        /\ ItemGroup(schedule[q].items[3]) = "back"

(* ---------------- C13 ---------------- *)
\* C13: building a day sets last_trained[g] to the current global day index
\* for exactly the groups that got an item on that day and leaves it as it
\* was for every other group; no other step changes last_trained.  So a
\* group with an item in the schedule has the index of the latest such day,
\* every value is the sentinel or a day index, and a group that never has an
\* eligible exercise (arms; shoulders under bodyweight) keeps the sentinel.
C13_RecoveryFrame ==
  /\ [][ (pc = "gen" /\ Len(schedule') = Len(schedule) + 1) =>
           LET day == schedule'[Len(schedule')] IN
           /\ DOMAIN last_trained' = DOMAIN last_trained
           /\ \A g \in DOMAIN last_trained :
                 IF \E i \in 1..Len(day.items) : ItemGroup(day.items[i]) = g
                 THEN last_trained'[g] = current_day_index
                 ELSE last_trained'[g] = last_trained[g] ]_vars
  /\ [][ Len(schedule') # Len(schedule) + 1 => last_trained' = last_trained ]_vars
  /\ [](\A g \in TrackedGroups :
          /\ LET on == {q \in 1..Len(schedule) : TrainedOn(q, g)} IN
             on # {} => last_trained[g] = (CHOOSE m \in on : \A q \in on : q <= m) - 1
          /\ (last_trained[g] = NeverTrained \/ last_trained[g] >= 0))
  /\ [](last_trained["arms"] = NeverTrained)
  /\ [](equipment = "bodyweight" => last_trained["shoulders"] = NeverTrained)

\* a returned two-week bodyweight plan whose days name shoulders as a
\* candidate: shoulders is still at the sentinel, chest holds the index of
\* its latest day, and chest was left alone on a day it was a candidate of
C13_Witness ==
  /\ pc = "returned"
  /\ equipment = "bodyweight"
  /\ weeks = 2
  /\ \A q \in 1..Len(schedule) : "shoulders" \in CandidateGroups(schedule[q].focus)
  /\ last_trained["shoulders"] = NeverTrained
  /\ \E q \in 1..Len(schedule) :
        /\ TrainedOn(q, "chest")
        /\ last_trained["chest"] = q - 1
        /\ q < Len(schedule)
        /\ ~TrainedOn(q + 1, "chest")

(* ---------------- C14 ---------------- *)
\* C14: on every day the groups that get an item are exactly the candidate
\* groups of the day's focus that are recovered when the day starts
\* (current_day_index - last_trained[g] >= 2) and have an eligible exercise;
\* each of them gets exactly one item, naming a catalog exercise of that
\* group, so the 5-item cap drops none; and no item ever trains a group
\* outside the day's focus mapping, "arms" least of all.
C14_ExactDay ==
  /\ [][ (pc = "gen" /\ Len(schedule') = Len(schedule) + 1) =>
           LET day == schedule'[Len(schedule')]
               due == {g \in CandidateGroups(day.focus) :
                          /\ current_day_index - last_trained[g] >= 2
                          /\ HasEligible(g, equipment)}
           IN  /\ {ItemGroup(day.items[i]) : i \in 1..Len(day.items)} = due
               /\ Len(day.items) = Cardinality(due)
               /\ \A g \in due :
                     Cardinality({i \in 1..Len(day.items) :
                        \E k \in DOMAIN EXERCISES :
                           /\ EXERCISES[k].id = day.items[i].exercise_id
                           /\ EXERCISES[k].group = g}) = 1 ]_vars
  /\ [](\A q \in 1..Len(schedule) : \A i \in 1..Len(schedule[q].items) :
          /\ ItemGroup(schedule[q].items[i]) \in CandidateGroups(schedule[q].focus)
          /\ ItemGroup(schedule[q].items[i]) # "arms")

\* a returned plan with a full-body day on which all five candidate groups
\* were due and got their item, and a later full-body day on which only some
\* of them did
C14_Witness ==
  /\ pc = "returned"
  /\ \E q1 \in 1..Len(schedule) : \E q2 \in 1..Len(schedule) :
        /\ q1 < q2
        /\ schedule[q1].focus = "full"
        /\ {ItemGroup(schedule[q1].items[i]) : i \in 1..Len(schedule[q1].items)}
              = {"chest", "back", "legs", "shoulders", "core"}
        /\ schedule[q2].focus = "full"
        /\ Len(schedule[q2].items) \in 1..4
====
